---- MODULE Spec2Model ----
(***************************************************************************)
(* UNO-Bot: the channel registry of the `play` command (bot/extensions/    *)
(* uno.py, bot/core/bot.py) and the session life cycle of bot/uno/game.py: *)
(* rule-set negotiation, player queueing, dealing.                         *)
(*                                                                         *)
(* Every action is one uninterrupted run of a coroutine between two points *)
(* where it really suspends (an awaited transport call or View.wait()).    *)
(* A view receives interactions only once the send/edit that carries it    *)
(* has returned (the library stores the view after the HTTP call) and      *)
(* until it is finished (stop() or its idle timeout).                      *)
(***************************************************************************)
EXTENDS Integers, Sequences, FiniteSets

\* ---- bounds ----
NUsers == 3
NChannels == 2
MaxSessions == 2
MaxViews == 2
MaxEvents == 4
DeckSize == 2
DrawDeckSize == 4
MaxDraw == 3

\* ---- program constants ----
HandSize == 7
\* OPENING_MESSAGE: "Starting in 3 minutes, or if 10 players join."
MaxPlayers == 10

Users == 1..NUsers
Channels == 1..NChannels
Sessions == 1..MaxSessions

AllFlags == {"stacking", "progressive", "seven_o", "jump_in"}
DefaultRules == {"stacking", "progressive"}
\* the selections the select menu delivers in this model
Selections == { {}, {"stacking", "jump_in"}, {"stacking", "progressive", "seven_o"}, AllFlags }

VARIABLES
    uno_instances,  \* UNOBot.uno_instances: channel -> session id, 0 = no entry
    games,          \* session id -> the fields of the UNO object
    views,          \* session id -> its RuleSetPromptingView and PlayerQueueingViews
    cmd,            \* user -> where the user's play_uno invocation stands ("idle": none runs)
    nGames,         \* number of UNO objects constructed so far
    reply,          \* the response the last interaction got ("none": no notice)
    nEvents,        \* number of commands, interactions and unloads handled so far
    budget          \* number of such events a run handles at most

vars == <<uno_instances, games, views, cmd, nGames, reply, nEvents, budget>>

\* ---- helpers ----
Perms(S) == {f \in [1..Cardinality(S) -> S] : \A i, j \in DOMAIN f : f[i] = f[j] => i = j}

\* random.shuffle of a list: any permutation of it
Shuffles(seq) == {[i \in 1..Len(seq) |-> seq[p[i]]] : p \in Perms(1..Len(seq))}

\* cards.create_deck: the full composition in canonical order
create_deck == [i \in 1..DeckSize |-> i]

\* a Hand: its owner and its _cards
Hand(player) == [player |-> player, cards |-> <<>>]

\* (variant: the cards are taken from the bottom of the deck)
draw_bottom(hand, deck, amount) ==
    IF Len(deck) < amount
    THEN [hand |-> hand, deck |-> deck, ok |-> FALSE]
    ELSE [hand |-> [hand EXCEPT !.cards =
                        @ \o SubSeq(deck, Len(deck) - amount + 1, Len(deck))],
          deck |-> SubSeq(deck, 1, Len(deck) - amount),
          ok |-> TRUE]

RECURSIVE draw(_, _, _)
\* Hand.draw(amount) against deck: amount times _draw_one, i.e. deck.pop(0)
\* appended to the hand; popping an empty list raises and ends the draw.
draw(hand, deck, amount) ==
    IF amount = 0 THEN [hand |-> hand, deck |-> deck, ok |-> TRUE]
    ELSE IF Len(deck) = 0 THEN [hand |-> hand, deck |-> deck, ok |-> FALSE]
    ELSE draw([hand EXCEPT !.cards = Append(@, Head(deck))], Tail(deck), amount - 1)

RECURSIVE _deal_cards(_, _, _)
\* UNO._deal_cards: hand.draw(7) for the hands from index i on
_deal_cards(hands, deck, i) ==
    IF i > Len(hands) THEN [hands |-> hands, deck |-> deck, ok |-> TRUE]
    ELSE LET r == draw(hands[i], deck, HandSize)
         IN  IF r.ok THEN _deal_cards([hands EXCEPT ![i] = r.hand], r.deck, i + 1)
             ELSE [hands |-> [hands EXCEPT ![i] = r.hand], deck |-> r.deck, ok |-> FALSE]

\* UNO._setup on an already shuffled deck: pop current, then deal
_setup(hands, shuffled) ==
    IF Len(shuffled) = 0
    THEN [hands |-> hands, deck |-> shuffled, current |-> 0, ok |-> FALSE]
    ELSE LET r == _deal_cards(hands, Tail(shuffled), 1)
         IN  [hands |-> r.hands, deck |-> r.deck, current |-> Head(shuffled), ok |-> r.ok]

NoGame == [ctx |-> 0, host |-> 0, rule_set |-> {}, submitted |-> FALSE, values |-> {},
           players |-> {}, deck |-> <<>>, hands |-> <<>>, current |-> 0, turn |-> 0,
           message |-> 0, sent |-> 0, dealt |-> FALSE, exit |-> "none"]

NoViews == [rules |-> "none", queue |-> <<>>]

Init ==
    /\ uno_instances = [c \in Channels |-> 0]
    /\ games = [s \in Sessions |-> NoGame]
    /\ views = [s \in Sessions |-> NoViews]
    /\ cmd = [u \in Users |-> "idle"]
    /\ nGames = 0
    /\ reply = "none"
    /\ nEvents = 0
    /\ budget = MaxEvents

\* one more event from outside (a command, an interaction, an unload) is handled
Event ==
    /\ nEvents < budget
    /\ nEvents' = nEvents + 1
    /\ budget' = budget

\* interaction.response.send_message(text, ephemeral=True), or no notice
Respond(text) ==
    /\ Event
    /\ reply' = text

\* ---- the play command ----

\* (variant: the registry is not consulted)
Registered_unchecked(ch) == FALSE

\* uno.py line 21: ctx.channel.id in self.bot.uno_instances
Registered(ch) == uno_instances[ch] # 0

\* (variant: Deck.__init__ does not reset, the deck starts empty)
NewGame_noReset(u, ch) ==
    [NoGame EXCEPT !.ctx = ch, !.host = u, !.rule_set = DefaultRules, !.exit = "running"]

\* UNO.__init__ followed by the first line of choose_rule_set
NewGame(u, ch) ==
    [NoGame EXCEPT !.ctx = ch, !.host = u, !.rule_set = DefaultRules,
                   !.deck = create_deck, !.exit = "running"]

\* play_uno up to its first suspension: the rejection notice, or the
\* ctx.send of the negotiation message inside game.start()
play_uno(u, ch) ==
    /\ cmd[u] = "idle"
    /\ IF Registered(ch)
       THEN /\ cmd' = [cmd EXCEPT ![u] = "reject"]
            /\ UNCHANGED <<uno_instances, games, views, nGames>>
       ELSE /\ nGames < MaxSessions
            /\ nGames' = nGames + 1
            /\ games' = [games EXCEPT ![nGames + 1] = NewGame(u, ch)]
            /\ uno_instances' = [uno_instances EXCEPT ![ch] = nGames + 1]
            /\ cmd' = [cmd EXCEPT ![u] = "start"]
            /\ UNCHANGED views
    /\ Event
    /\ UNCHANGED reply

\* the rejection notice has been sent: play_uno returns
play_uno_rejected(u) ==
    /\ cmd[u] = "reject"
    /\ cmd' = [cmd EXCEPT ![u] = "idle"]
    /\ UNCHANGED <<uno_instances, games, views, nGames, reply, nEvents, budget>>

\* the session whose play_uno invocation by user u is still running
\* (max_concurrency(1, user): there is at most one)
GameOf(u) == CHOOSE s \in Sessions : games[s].host = u /\ games[s].exit = "running"

\* The negotiation message has been sent.  _send stores it, choose_rule_set
\* and _run_initial_prompts go on without waiting for the view: hands are
\* built from players, shuffled, _setup runs, start() returns, and
\* game.wait() raises AttributeError (UNO has no wait), so the del of
\* lines 30-33 is never reached.
play_uno_started(u) ==
    /\ cmd[u] = "start"
    /\ LET s == GameOf(u)
           g == games[s]
       IN  \E order \in Perms(g.players), shuffled \in Shuffles(g.deck) :
             LET hands == [i \in 1..Len(order) |-> Hand(order[i])]
                 r == _setup(hands, shuffled)
             IN  /\ games' = [games EXCEPT ![s] =
                        [g EXCEPT !.message = g.sent + 1, !.sent = g.sent + 1,
                                  !.hands = r.hands, !.deck = r.deck,
                                  !.current = r.current, !.dealt = TRUE,
                                  !.exit = IF r.ok THEN "AttributeError" ELSE "IndexError"]]
                 /\ views' = [views EXCEPT ![s].rules = "live"]
    /\ cmd' = [cmd EXCEPT ![u] = "idle"]
    /\ UNCHANGED <<uno_instances, nGames, reply, nEvents, budget>>

\* UNO.cog_unload (the cog)
cog_unload ==
    /\ \E c \in Channels : uno_instances[c] # 0
    /\ uno_instances' = [c \in Channels |-> 0]
    /\ Event
    /\ UNCHANGED <<games, views, cmd, nGames, reply>>

\* ---- interactions ----

\* (variant: the gate lets everyone through)
interaction_check_open(s, u) == TRUE

\* HostOnlyView.interaction_check
interaction_check(s, u) == u = games[s].host

\* (variant: selected flags are switched on, none is switched off)
SetRules_accumulate(rule_set, values) == rule_set \cup values

\* RuleSetPrompt.callback, lines 80-81: every flag is set to (flag in values)
SetRules(rule_set, values) == {f \in AllFlags : f \in values}

\* (variant: every render sends a new message)
Rendered_anew(g) == [g EXCEPT !.message = g.sent + 1, !.sent = g.sent + 1]

\* UNO._send called with the message already there or not: the first render
\* sends a message, every later one edits it
Rendered(g) ==
    IF g.message = 0 THEN [g EXCEPT !.message = g.sent + 1, !.sent = g.sent + 1] ELSE g

\* a rule-change (the select of the negotiation view) by user u
RuleSetPrompt_callback(s, u, values) ==
    /\ views[s].rules = "live"
    /\ IF ~interaction_check(s, u)
       THEN /\ Respond("You are not the host of this game.")
            /\ UNCHANGED games
       ELSE /\ Respond("none")
            /\ games' = [games EXCEPT ![s].rule_set = SetRules(@, values),
                                      ![s].submitted = TRUE, ![s].values = values]
    /\ UNCHANGED <<uno_instances, views, cmd, nGames>>

\* PlayerQueueingView.__init__: the view shares the session's player set
\* (line 106) and adds the host to it (line 107); the Start button starts
\* disabled.  The first _send of queue_players is then awaited.
PlayerQueueingView(g) ==
    [pc |-> "send", state |-> "new", disabled |-> TRUE, fresh |-> g.message = 0]

\* the Continue button of the negotiation view, pressed by user u:
\* queue_players up to its first suspension
_continue(s, u) ==
    /\ views[s].rules = "live"
    /\ IF ~interaction_check(s, u)
       THEN /\ Respond("You are not the host of this game.")
            /\ UNCHANGED <<games, views>>
       ELSE /\ Len(views[s].queue) < MaxViews
            /\ Respond("none")
            /\ games' = [games EXCEPT ![s].players = @ \cup {games[s].host}]
            /\ views' = [views EXCEPT ![s].queue = Append(@, PlayerQueueingView(games[s]))]
    /\ UNCHANGED <<uno_instances, cmd, nGames>>

\* the idle timeout (360) of the negotiation view
rules_timeout(s) ==
    /\ views[s].rules = "live"
    /\ views' = [views EXCEPT ![s].rules = "finished"]
    /\ UNCHANGED <<uno_instances, games, cmd, nGames, reply, nEvents, budget>>

\* PlayerQueueingView._update, line 136
StartDisabled(players) == Cardinality(players) > 1

\* the set object that view v of session s calls self.players: the very set
\* that is game.players (line 106 binds it, it is never copied)
ViewPlayers(s, v) == games[s].players

\* (variant: only stop() ends the wait, the timeout does not)
is_finished_stopped(state) == state = "stopped"

\* View.is_finished: wait() returns once the view was stopped or timed out
is_finished(state) == state \in {"stopped", "timeout"}

\* queue_players, line 308 has returned: the view is stored with the
\* message; _update sets the button and renders again
queue_sent(s, v) ==
    /\ v \in DOMAIN views[s].queue
    /\ views[s].queue[v].pc = "send"
    /\ LET g == IF views[s].queue[v].fresh
                THEN Rendered(games[s])
                ELSE games[s]
       IN  /\ games' = [games EXCEPT ![s] = g]
           /\ views' = [views EXCEPT ![s].queue[v] =
                  [pc |-> "update", state |-> "live",
                   disabled |-> StartDisabled(ViewPlayers(s, v)), fresh |-> g.message = 0]]
    /\ UNCHANGED <<uno_instances, cmd, nGames, reply, nEvents, budget>>

\* queue_players, line 309 has returned; view.wait() returns at once when
\* the view is already finished, else queue_players suspends in it
queue_updated(s, v) ==
    /\ v \in DOMAIN views[s].queue
    /\ views[s].queue[v].pc = "update"
    /\ LET g == IF views[s].queue[v].fresh
                THEN Rendered(games[s])
                ELSE games[s]
       IN  IF ~is_finished(views[s].queue[v].state)
           THEN /\ views' = [views EXCEPT ![s].queue[v].pc = "wait", ![s].queue[v].fresh = FALSE]
                /\ games' = [games EXCEPT ![s] = g]
           ELSE /\ views' = [views EXCEPT ![s].queue[v].pc = "done", ![s].queue[v].fresh = FALSE]
                /\ games' = [games EXCEPT ![s] = [g EXCEPT !.players = ViewPlayers(s, v)]]
    /\ UNCHANGED <<uno_instances, cmd, nGames, reply, nEvents, budget>>

\* view.wait() returns (the view was stopped or timed out): line 312
queue_waited(s, v) ==
    /\ v \in DOMAIN views[s].queue
    /\ views[s].queue[v].pc = "wait"
    /\ is_finished(views[s].queue[v].state)
    /\ views' = [views EXCEPT ![s].queue[v].pc = "done"]
    /\ games' = [games EXCEPT ![s].players = ViewPlayers(s, v)]
    /\ UNCHANGED <<uno_instances, cmd, nGames, reply, nEvents, budget>>

\* the idle timeout (180) of a queueing view
queue_timeout(s, v) ==
    /\ v \in DOMAIN views[s].queue
    /\ views[s].queue[v].state = "live"
    /\ views' = [views EXCEPT ![s].queue[v].state = "timeout"]
    /\ UNCHANGED <<uno_instances, games, cmd, nGames, reply, nEvents, budget>>

\* (variant: the minimum is off by one)
TooFew_strict(players) == Cardinality(players) <= 2

\* line 122: the minimum of the Start button
TooFew(players) == Cardinality(players) < 2

\* the Start button (the callback of lines 115-128), pressed by user u
immediate_start(s, v, u) ==
    /\ v \in DOMAIN views[s].queue
    /\ views[s].queue[v].state = "live"
    /\ IF u # games[s].host
       THEN /\ Respond("Only the host can start this game.")
            /\ UNCHANGED views
       ELSE IF TooFew(ViewPlayers(s, v))
       THEN /\ Respond("There must be at least 2 players in order to start this game.")
            /\ UNCHANGED views
       ELSE /\ Respond("none")
            /\ views' = [views EXCEPT ![s].queue[v].state = "stopped"]
    /\ UNCHANGED <<uno_instances, games, cmd, nGames>>

\* (variant: the membership test sees a set the user was already added to)
AlreadyIn_stale(u, players) == TRUE

\* line 147
AlreadyIn(u, players) == u \in players

\* the Join button, pressed by user u
join(s, v, u) ==
    /\ v \in DOMAIN views[s].queue
    /\ views[s].queue[v].state = "live"
    /\ IF AlreadyIn(u, ViewPlayers(s, v))
       THEN /\ Respond("You are already in this game.")
            /\ UNCHANGED <<games, views>>
       ELSE /\ Respond("none")
            /\ games' = [games EXCEPT ![s] = Rendered([@ EXCEPT !.players = @ \cup {u}])]
            /\ views' = [views EXCEPT ![s].queue[v].disabled =
                                          StartDisabled(ViewPlayers(s, v) \cup {u})]
    /\ UNCHANGED <<uno_instances, cmd, nGames>>

\* (variant: the host may leave like anyone else)
IsHost_unchecked(s, u) == FALSE

\* line 164
IsHost(s, u) == u = games[s].host

\* the Leave button, pressed by user u
leave(s, v, u) ==
    /\ v \in DOMAIN views[s].queue
    /\ views[s].queue[v].state = "live"
    /\ IF u \notin ViewPlayers(s, v)
       THEN /\ Respond("You are not in this game.")
            /\ UNCHANGED <<games, views>>
       ELSE IF IsHost(s, u)
       THEN /\ Respond("You cannot leave this game as you are the host.")
            /\ UNCHANGED <<games, views>>
       ELSE /\ Respond("none")
            /\ games' = [games EXCEPT ![s] = Rendered([@ EXCEPT !.players = @ \ {u}])]
            /\ views' = [views EXCEPT ![s].queue[v].disabled =
                                          StartDisabled(ViewPlayers(s, v) \ {u})]
    /\ UNCHANGED <<uno_instances, cmd, nGames>>

ViewIds == 1..MaxViews

Next ==
    \/ \E u \in Users, ch \in Channels : play_uno(u, ch)
    \/ \E u \in Users : play_uno_rejected(u)
    \/ \E u \in Users : play_uno_started(u)
    \/ cog_unload
    \/ \E s \in Sessions, u \in Users, values \in Selections : RuleSetPrompt_callback(s, u, values)
    \/ \E s \in Sessions, u \in Users : _continue(s, u)
    \/ \E s \in Sessions : rules_timeout(s)
    \/ \E s \in Sessions, v \in ViewIds : queue_sent(s, v)
    \/ \E s \in Sessions, v \in ViewIds : queue_updated(s, v)
    \/ \E s \in Sessions, v \in ViewIds : queue_waited(s, v)
    \/ \E s \in Sessions, v \in ViewIds : queue_timeout(s, v)
    \/ \E s \in Sessions, v \in ViewIds, u \in Users : immediate_start(s, v, u)
    \/ \E s \in Sessions, v \in ViewIds, u \in Users : join(s, v, u)
    \/ \E s \in Sessions, v \in ViewIds, u \in Users : leave(s, v, u)

Spec == Init /\ [][Next]_vars

\* what the event loop and the timers do on their own: a coroutine whose
\* awaited call has returned is resumed, an idle view times out
Resume ==
    \E s \in Sessions, v \in ViewIds :
        queue_sent(s, v) \/ queue_updated(s, v) \/ queue_waited(s, v) \/ queue_timeout(s, v)

FairSpec == Spec /\ WF_vars(Resume)

\* ---- drawing from the deck ----

\* cards.create_deck at the size the draws are tried against
DrawDeck == [i \in 1..DrawDeckSize |-> i]

\* the orders in which the hands of a player set are built (line 320)
HandOrders(P) == {[i \in 1..Cardinality(P) |-> Hand(p[i])] : p \in Perms(P)}

\* The inputs of a draw: a session of user 1 in channel 1 whose deck was reset and shuffled and
\* whose current card was popped (lines 324-325), with an empty hand for
\* each player of some player set.
DrawInit ==
    /\ uno_instances = [c \in Channels |-> IF c = 1 THEN 1 ELSE 0]
    /\ \E P \in SUBSET Users : \E hs \in HandOrders(P \cup {1}) :
       \E shuffled \in Shuffles(DrawDeck) :
           games = [s \in Sessions |->
               IF s = 1
               THEN [NewGame(1, 1) EXCEPT !.players = P \cup {1}, !.hands = hs,
                                          !.current = Head(shuffled),
                                          !.deck = Tail(shuffled)]
               ELSE NoGame]
    /\ views = [s \in Sessions |-> NoViews]
    /\ cmd = [u \in Users |-> "idle"]
    /\ nGames = 1
    /\ reply = "none"
    /\ nEvents = 0
    /\ budget = 0

\* hands[i].draw(n) in session s; a pop from the empty deck raises
hand_draw(s, i, n) ==
    /\ games[s].exit = "running"
    /\ i \in DOMAIN games[s].hands
    /\ LET r == draw(games[s].hands[i], games[s].deck, n)
       IN  games' = [games EXCEPT ![s].hands[i] = r.hand, ![s].deck = r.deck,
                                  ![s].exit = IF r.ok THEN @ ELSE "IndexError"]
    /\ UNCHANGED <<uno_instances, views, cmd, nGames, reply, nEvents, budget>>

DrawNext == \E s \in Sessions, i \in 1..NUsers, n \in 1..MaxDraw : hand_draw(s, i, n)

DrawSpec == DrawInit /\ [][DrawNext]_vars

\* ---- a crowded queueing stage ----

\* more users than the opening message announces as the limit
Crowd == 1..(MaxPlayers + 1)
\* the two events that opened the stage, and a click for each further user
CrowdBudget == MaxPlayers + 2

\* The state user 1 reaches in channel 1 by the play command and Continue:
\* the session is registered, start() has dealt (to no hands) and play_uno
\* has failed on game.wait(), queue_players has rendered the roster and is
\* waiting on its view with the host as the only player.
CrowdInit ==
    /\ uno_instances = [c \in Channels |-> IF c = 1 THEN 1 ELSE 0]
    /\ \E shuffled \in Shuffles(create_deck) :
           LET r == _setup(<<>>, shuffled)
           IN  games = [s \in Sessions |->
                   IF s = 1
                   THEN [NewGame(1, 1) EXCEPT !.deck = r.deck, !.hands = r.hands,
                                              !.current = r.current, !.dealt = TRUE,
                                              !.players = {1}, !.message = 1, !.sent = 1,
                                              !.exit = "AttributeError"]
                   ELSE NoGame]
    /\ views = [s \in Sessions |->
           IF s = 1
           THEN [rules |-> "live",
                 queue |-> <<[PlayerQueueingView(NewGame(1, 1)) EXCEPT
                                  !.pc = "wait", !.state = "live", !.fresh = FALSE,
                                  !.disabled = StartDisabled({1})]>>]
           ELSE NoViews]
    /\ cmd = [u \in Users |-> "idle"]
    /\ nGames = 1
    /\ reply = "none"
    /\ nEvents = 2
    /\ budget = CrowdBudget

CrowdNext ==
    \/ \E s \in Sessions, v \in ViewIds, u \in Crowd : join(s, v, u)
    \/ \E s \in Sessions, v \in ViewIds, u \in Crowd : leave(s, v, u)
    \/ \E s \in Sessions, v \in ViewIds, u \in Crowd : immediate_start(s, v, u)
    \/ \E s \in Sessions, v \in ViewIds : queue_timeout(s, v)
    \/ \E s \in Sessions, v \in ViewIds : queue_waited(s, v)

CrowdSpec == CrowdInit /\ [][CrowdNext]_vars

\* ---- properties ----

Created(s) == games[s].exit # "none"
QueueViews(s) == DOMAIN views[s].queue
\* the queueing stage of session s has ended: some queue_players has returned
QueueingEnded(s) == \E v \in QueueViews(s) : views[s].queue[v].pc = "done"
Owners(hands) == {hands[i].player : i \in DOMAIN hands}

\* C1: a play command for a channel that already has a registry entry is
\* rejected: it constructs no session, leaves the registry and every session
\* (players, hands, turn, ...) as they are; a session is only ever
\* constructed for a channel without an entry, whatever commands of other
\* users are under way.
C1_SecondPlayRejected ==
    [][ /\ \A u \in Users, ch \in Channels :
              (play_uno(u, ch) /\ uno_instances[ch] # 0) =>
                  /\ cmd'[u] = "reject"
                  /\ UNCHANGED <<uno_instances, games, views, nGames>>
        /\ \A s \in Sessions :
              (~Created(s) /\ Created(s)') =>
                  /\ uno_instances[games'[s].ctx] = 0
                  /\ uno_instances' = [uno_instances EXCEPT ![games'[s].ctx] = s]
                  /\ \A t \in Sessions \ {s} : games'[t] = games[t]
      ]_vars

\* a second user's play is being rejected while the host's own play of the
\* registered session is still under way
C1_Witness ==
    \E u, h \in Users, ch \in Channels :
        /\ u # h
        /\ cmd[u] = "reject"
        /\ cmd[h] = "start"
        /\ uno_instances[ch] # 0
        /\ games[uno_instances[ch]].host = h

\* C2: once the play command that registered a session has ended (however
\* it ended), the session is no longer in the registry.
C2_RemovedOnExit ==
    \A s \in Sessions :
        games[s].exit \notin {"none", "running"} =>
            \A ch \in Channels : uno_instances[ch] # s

\* C3: dealing (hands built, deck shuffled, current popped, cards dealt) has
\* run only in sessions whose queueing stage has ended.
C3_DealingAfterQueueing ==
    \A s \in Sessions : games[s].dealt => QueueingEnded(s)

\* C4: a start-now by the host on a live queueing view with at least 2
\* players is accepted without a notice and finishes the view at once with
\* the roster as it is; the too-few notice is only ever given below 2
\* players; a finished view stays finished, and when queue_players has
\* returned the view is finished and the session's players is its roster.
C4_StartNowEndsQueueing ==
    [][ /\ ( /\ nEvents' # nEvents
             /\ reply' = "There must be at least 2 players in order to start this game." ) =>
                \E s \in Sessions : QueueViews(s) # {} /\ Cardinality(games[s].players) < 2
        /\ \A s \in Sessions, v \in ViewIds :
          /\ ( /\ v \in QueueViews(s)
               /\ Cardinality(games[s].players) >= 2
               /\ immediate_start(s, v, games[s].host) ) =>
                  /\ views'[s].queue[v].state = "stopped"
                  /\ reply' = "none"
                  /\ games'[s].players = games[s].players
          /\ ( v \in QueueViews(s) /\ views[s].queue[v].state \in {"stopped", "timeout"} ) =>
                  views'[s].queue[v].state = views[s].queue[v].state
          /\ ( v \in DOMAIN views'[s].queue /\ views'[s].queue[v].pc = "done" ) =>
                  /\ views'[s].queue[v].state \in {"stopped", "timeout"}
                  /\ games'[s].players = ViewPlayers(s, v)'
      ]_vars

\* the host's start-now was accepted with 2 or more players and
\* queue_players has returned
C4_Witness ==
    \E s \in Sessions : \E v \in QueueViews(s) :
        /\ views[s].queue[v].state = "stopped"
        /\ views[s].queue[v].pc = "done"
        /\ Cardinality(games[s].players) >= 2
        /\ reply = "none"

\* what a rejected queueing action on view v of session s leaves alone
QueueUntouched(s, v) ==
    /\ games'[s].players = games[s].players
    /\ views'[s].queue[v].state = views[s].queue[v].state
    /\ views'[s].queue[v].pc = views[s].queue[v].pc
    /\ reply' # "none"

\* C5: in the queueing stage a join by a member, a leave by a non-member, a
\* leave by the host, a start-now by a non-host and a start-now with fewer
\* than 2 players each get a notice, leave the player set as it is and do
\* not end the stage; once a queueing view exists no step takes the host
\* out of the player set.
C5_RejectedQueueActions ==
    [][ \A s \in Sessions :
          /\ \A v \in QueueViews(s), u \in Users :
                /\ (join(s, v, u) /\ u \in games[s].players) => QueueUntouched(s, v)
                /\ (leave(s, v, u) /\ u \notin games[s].players) => QueueUntouched(s, v)
                /\ (leave(s, v, u) /\ u = games[s].host) => QueueUntouched(s, v)
                /\ (immediate_start(s, v, u) /\ u # games[s].host) => QueueUntouched(s, v)
                /\ (immediate_start(s, v, u) /\ Cardinality(games[s].players) < 2)
                       => QueueUntouched(s, v)
          /\ (QueueViews(s) # {}) => games[s].host \in games'[s].players
      ]_vars

\* the host has just been refused to leave a session that has other players
C5_Witness ==
    /\ reply = "You cannot leave this game as you are the host."
    /\ \E s \in Sessions :
          /\ QueueViews(s) # {}
          /\ games[s].host \in games[s].players
          /\ Cardinality(games[s].players) >= 2

\* C6: the flags that are true are exactly those of the host's most recent
\* selection, and the defaults (stacking, progressive) when the host has
\* submitted none.
C6_RulesAreLastSelection ==
    \A s \in Sessions :
        Created(s) =>
            games[s].rule_set = IF games[s].submitted THEN games[s].values ELSE DefaultRules

\* the host's last selection is the empty one and all four flags are false
C6_Witness ==
    \E s \in Sessions :
        /\ games[s].submitted
        /\ games[s].values = {}
        /\ games[s].rule_set = {}
        /\ nEvents >= 3

\* C7: a rule-change or a continue by anyone but the host gets the
\* not-the-host notice and changes no session and no view.
C7_HostOnlyGate ==
    [][ \A s \in Sessions, u \in Users :
          ( /\ Created(s)
            /\ u # games[s].host
            /\ \/ _continue(s, u)
               \/ \E values \in Selections : RuleSetPrompt_callback(s, u, values) ) =>
              /\ UNCHANGED <<games, views>>
              /\ reply' = "You are not the host of this game."
      ]_vars

\* someone else than the host has just been turned away by the gate of a
\* session that is still in negotiation with its default rules
C7_Witness ==
    /\ reply = "You are not the host of this game."
    /\ \E s \in Sessions :
          /\ views[s].rules = "live"
          /\ QueueViews(s) = {}
          /\ games[s].rule_set = DefaultRules

\* C8: when dealing is complete and the queueing stage has ended with k
\* players, there are k hands of 7 cards, the deck has lost 7k + 1 cards,
\* current is a card and turn = 0 indexes a hand.
C8_DealtToQueuedPlayers ==
    \A s \in Sessions :
        (games[s].dealt /\ QueueingEnded(s)) =>
            LET k == Cardinality(games[s].players)
            IN  /\ Len(games[s].hands) = k
                /\ \A i \in DOMAIN games[s].hands : Len(games[s].hands[i].cards) = HandSize
                /\ Len(games[s].deck) = DeckSize - (HandSize * k + 1)
                /\ games[s].current # 0
                /\ games[s].turn = 0
                /\ games[s].turn + 1 \in DOMAIN games[s].hands

\* C9: the host of every constructed session is one of its players.
C9_HostIsPlayer ==
    \A s \in Sessions : Created(s) => games[s].host \in games[s].players

\* C10: once dealing has run, the owners of the hands are exactly the players.
C10_HandsMatchPlayers ==
    \A s \in Sessions : games[s].dealt => Owners(games[s].hands) = games[s].players

\* C11: every queueing view that was opened is eventually done with: its
\* queue_players has returned (by the timeout when no start-now was
\* accepted, whatever the number of players) and the session's players is
\* the roster of the view.
C11_QueueingEnds ==
    \A s \in Sessions, v \in ViewIds :
        (v \in QueueViews(s)) ~>
            ( /\ v \in QueueViews(s)
              /\ views[s].queue[v].pc = "done"
              /\ is_finished(views[s].queue[v].state)
              /\ games[s].players = ViewPlayers(s, v) )

\* a queueing stage with the host alone has ended by its timeout
C11_Witness ==
    \E s \in Sessions : \E v \in QueueViews(s) :
        /\ views[s].queue[v].pc = "done"
        /\ views[s].queue[v].state = "timeout"
        /\ Cardinality(games[s].players) = 1

\* C12: the player set of a session never holds more than 10 members, and
\* once it holds 10 the queueing stage is over (no view of it is still
\* waiting for the timeout or for a start-now).
C12_TenPlayersStart ==
    \A s \in Sessions :
        /\ Cardinality(games[s].players) <= MaxPlayers
        /\ Cardinality(games[s].players) >= MaxPlayers =>
               \A v \in QueueViews(s) : is_finished(views[s].queue[v].state)

Cards(seq) == {seq[i] : i \in DOMAIN seq}
RECURSIVE Flat(_)
\* the cards of all hands, one hand after the other
Flat(hands) == IF hands = <<>> THEN <<>> ELSE Head(hands).cards \o Flat(Tail(hands))
\* the cards a session holds anywhere: current, the deck, the hands
Held(g) == <<g.current>> \o g.deck \o Flat(g.hands)

\* C13: a draw of n >= 1 cards by a hand against a deck of at least n cards
\* appends exactly the first n cards of the deck, in deck order, to that
\* hand and leaves the rest of the deck, touching no other hand; no card is
\* in both afterwards; and at every time current, the deck and the hands
\* together hold every card of the fresh deck exactly once.
C13_DrawMovesTopCards ==
    /\ [](\A s \in Sessions : games[s].exit # "none" =>
             /\ Len(Held(games[s])) = Len(DrawDeck)
             /\ Cards(Held(games[s])) = Cards(DrawDeck))
    /\ [][\A s \in Sessions, i \in 1..NUsers, n \in 1..MaxDraw :
             (hand_draw(s, i, n) /\ Len(games[s].deck) >= n) =>
                 LET deck == games[s].deck
                     hand == games[s].hands[i].cards
                 IN  /\ games'[s].hands[i].cards = hand \o SubSeq(deck, 1, n)
                     /\ games'[s].deck = SubSeq(deck, n + 1, Len(deck))
                     /\ Len(games'[s].hands[i].cards) = Len(hand) + n
                     /\ Len(games'[s].deck) = Len(deck) - n
                     /\ Cards(games'[s].hands[i].cards) \cap Cards(games'[s].deck) = {}
                     /\ \A j \in DOMAIN games[s].hands :
                            j # i => games'[s].hands[j] = games[s].hands[j]
                     /\ games'[s].current = games[s].current
                     /\ games'[s].exit = "running"]_vars

\* a hand that already holds cards has drawn several more in one draw, next
\* to another hand that holds cards too
C13_Witness ==
    \E s \in Sessions : \E i, j \in DOMAIN games[s].hands :
        /\ i # j
        /\ Len(games[s].hands[i].cards) >= 2
        /\ Len(games[s].hands[j].cards) >= 1
        /\ games[s].exit = "running"

C15_StartEnabledIffEnough ==
    [][\A s \in Sessions, v \in ViewIds :
          ( \/ queue_sent(s, v)
            \/ \E u \in Users : join(s, v, u) /\ reply' = "none"
            \/ \E u \in Users : leave(s, v, u) /\ reply' = "none" )
          => (views'[s].queue[v].disabled <=> TooFew(games'[s].players))]_vars

\* C16: every join or leave handler tests and updates the player set in one
\* step on the set as the previous handler left it: a join by u yields
\* players + {u} (a notice and no change if u was in), a leave by u yields
\* players - {u} (a notice and no change if u was not in or is the host),
\* and nothing but these handlers and Continue (which adds the host)
\* changes the set; so the final set is the accepted joins and leaves
\* applied one at a time in delivery order.
C16_NoLostMembershipUpdate ==
    [][\A s \in Sessions :
          LET players == games[s].players
          IN  /\ \A v \in ViewIds, u \in Users :
                    join(s, v, u) =>
                        /\ games'[s].players = players \cup {u}
                        /\ reply' = IF u \in players
                                    THEN "You are already in this game." ELSE "none"
              /\ \A v \in ViewIds, u \in Users :
                    leave(s, v, u) =>
                        /\ games'[s].players =
                               IF u \in players /\ u # games[s].host
                               THEN players \ {u} ELSE players
                        /\ reply' = "none" <=> (u \in players /\ u # games[s].host)
              /\ games'[s].players # players =>
                    \/ \E v \in ViewIds, u \in Users : join(s, v, u) \/ leave(s, v, u)
                    \/ \E u \in Users : _continue(s, u) /\ games'[s].players = players \cup {u}
      ]_vars

\* the joins of two different participants have both taken effect
C16_Witness ==
    \E s \in Sessions : \E u1, u2 \in Users :
        /\ u1 # u2
        /\ games[s].host \notin {u1, u2}
        /\ {u1, u2} \subseteq games[s].players

\* C17: a session never has sent more than one message: while any of its
\* views can deliver a handler the first send has returned and the message
\* is stored, so no render starts while the first send is still awaited,
\* and every later render edits.
C17_OneMessagePerSession ==
    \A s \in Sessions :
        /\ games[s].sent <= 1
        /\ games[s].message \in {0, 1}
        /\ (views[s].rules # "none" \/ QueueViews(s) # {}) =>
               /\ games[s].sent = 1
               /\ games[s].message = 1
        /\ \A v \in QueueViews(s) : ~views[s].queue[v].fresh

\* the renders of start, Continue and a join have all happened in a session
C17_Witness ==
    \E s \in Sessions : \E v \in QueueViews(s) :
        /\ views[s].queue[v].pc = "wait"
        /\ Cardinality(games[s].players) >= 2
        /\ games[s].sent = 1

\* C18: once Continue has moved a session to queueing, no step changes any
\* of its four flags.
C18_RulesFrozenAfterContinue ==
    [][\A s \in Sessions :
          QueueViews(s) # {} => games'[s].rule_set = games[s].rule_set]_vars

\* C19: a session never has more than one queueing view, so a second
\* Continue neither opens a second one next to the first nor starts the
\* queueing window again.
C19_OneQueueingStage ==
    \A s \in Sessions : Cardinality(QueueViews(s)) <= 1

====
